---- MODULE Spec2Model ----
(***************************************************************************)
(* Coordination core of H2K: the CoordinationLayer facade over the durable *)
(* store (Supabase) and the optional cache (Redis), the agents' execute    *)
(* methods, and the control loop that dispatches them.                     *)
(*                                                                         *)
(* Four specifications share the variables:                                *)
(*   SpecCoord      clients calling init_execution / write_state /         *)
(*                  read_state against a store and a cache that can fail   *)
(*                  and expire;                                            *)
(*   Spec           one execution driven by the control loop through the   *)
(*                  orchestrator, the DeFi agent and the risk agent;       *)
(*   SpecPortfolio  callers of create_portfolio on the portfolios table;   *)
(*   SpecDeFi       DeFiAgent._analyze_opportunities on drawn inputs.      *)
(* The control loop (graph/workflow.py) follows section 4.4 of the         *)
(* specification; the oracle, the opportunity source and the risk model    *)
(* are environments that choose their replies.                             *)
(***************************************************************************)
EXTENDS Integers, Sequences, FiniteSets, TLC

VARIABLES
    supabase,       \* CoordinationLayer.supabase is a client (TRUE) or None (FALSE)
    redis_enabled,  \* CoordinationLayer.redis_enabled
    store,          \* agent_executions: execution_id -> state_data, None = no row
    cache,          \* redis: key state:<execution_id> -> JSON text, None = no entry
    clock,          \* datetime.utcnow()
    callerState,    \* SpecCoord: the state dict each client process holds
    lastOp,         \* SpecCoord: the last CoordinationLayer call and its outcome
    prevRead,       \* SpecCoord: key and iteration_count of the previous read that returned a state
    state,          \* Spec: the state dict threaded through the control loop
    status,         \* Spec: "init", "running", "done" or "crashed"
    passes,         \* Spec: agent invocations made by the control loop
    last,           \* Spec: the last agent invocation (agent, input, outcome, state before)
    invoked,        \* Spec: the agents invoked so far, in order
    okPasses,       \* Spec: orchestrator passes that completed the try block
    orchFailed,     \* Spec: an orchestrator pass took the except branch
    oracleNonTerminal, \* Spec: every oracle reply so far named a non-terminal agent
    report,         \* Spec: what main printed when the workflow invocation ended
    audit,          \* Spec: the tables agent_reasoning, agent_decisions, risk_assessments
    portfolios,     \* SpecPortfolio: the rows of the portfolios table, in insertion order
    issued,         \* SpecPortfolio: the ids create_portfolio has returned, per wallet address
    lastCreate,     \* SpecPortfolio: the last create_portfolio call and what it returned
    settings,       \* config.settings: MIN_APY_DIFF and RISK_THRESHOLD
    analysis        \* SpecDeFi: the inputs of _analyze_opportunities and its outcome

coordVars == <<supabase, redis_enabled, store, cache, clock>>
clientVars == <<callerState, lastOp, prevRead>>
loopVars == <<state, status, passes, last, invoked, okPasses, orchFailed, oracleNonTerminal,
              audit, report>>
portfolioVars == <<portfolios, issued, lastCreate>>
analysisVars == <<settings, analysis>>
vars == <<coordVars, clientVars, loopVars, portfolioVars, analysisVars>>

----------------------------------------------------------------------------
(* Bounds of the model *)

MaxPasses == 4      \* the configured maximum pass count of the control loop
MaxClock == 3       \* SpecCoord stops writing when the clock reaches it
MaxCreates == 3     \* SpecPortfolio: the create_portfolio calls made
MaxOpps == 2        \* SpecDeFi: the longest opportunity list drawn

----------------------------------------------------------------------------
(* Values *)

None == [tag |-> "None"]
NoId == "None"                      \* init_execution returning None
MockId == "mock_execution_id"
END == "END"

Procs == {1, 2}
MainProc == 1
TempId(p) == IF p = 1 THEN "t1" ELSE "t2"   \* str(uuid.uuid4()) of one run of main
RowId(p) == IF p = 1 THEN "e1" ELSE "e2"    \* execution_id the store gives the inserted row
Keys == {TempId(p) : p \in Procs} \cup {RowId(p) : p \in Procs} \cup {MockId}

\* main, lines 25-34: the wallet, user and chain main asks a portfolio for, and
\* the str(uuid.uuid4()) it takes when create_portfolio returns none.
DemoWallet == "0xA"
DemoUser == "u1"
DemoChain == 1
TempPortfolio == "portfolio-uuid"

\* initial_state of main
initial_state(portfolio_id, temp, now) ==
    [ portfolio_id |-> portfolio_id,
      execution_id |-> temp,
      user_input |-> "Find me the best yield opportunity for my USDC",
      wallet_address |-> DemoWallet,
      chain_id |-> DemoChain,
      balances |-> [USDC |-> 10000, ETH |-> 2],
      positions |-> << [protocol |-> "Aave", has_apy |-> TRUE, apy |-> 5] >>,
      orchestrator_decision |-> None,
      defi_proposal |-> None,
      risk_assessment |-> None,
      prediction_forecast |-> None,
      productivity_actions |-> None,
      qa_results |-> None,
      executed_transactions |-> << >>,
      pending_transactions |-> << >>,
      agent_reasoning |-> << >>,
      next_agent |-> "orchestrator",
      iteration_count |-> 0,
      error_messages |-> << >>,
      created_at |-> now,
      updated_at |-> now ]

----------------------------------------------------------------------------
(* CoordinationLayer *)

\* json.dumps(state, default=str) and json.loads: every field of the state is a
\* JSON value, so the text decodes to the dict that was encoded.
Dumps(s) == [json |-> s]
Loads(c) == c.json

\* init_execution: the id it returns and the store after it.
init_execution(st, p, initial, insertRaises) ==
    IF ~supabase THEN [id |-> MockId, store |-> st]
    ELSE IF insertRaises THEN [id |-> NoId, store |-> st]
    ELSE [id |-> RowId(p), store |-> [st EXCEPT ![RowId(p)] = initial]]

\* read_state with the except clause of the cache lookup left out: the
\* exception of redis.get ends the call.
read_state_cache_error_escapes(st, ch, execution_id, cacheRaises, storeRaises) ==
    IF redis_enabled /\ cacheRaises
    THEN [result |-> None, source |-> "none"]
    ELSE IF redis_enabled /\ ch[execution_id] # None
    THEN [result |-> Loads(ch[execution_id]), source |-> "cache"]
    ELSE IF ~supabase \/ storeRaises \/ st[execution_id] = None
         THEN [result |-> None, source |-> "none"]
         ELSE [result |-> st[execution_id], source |-> "store"]

\* read_state: the value returned and who answered.
read_state(st, ch, execution_id, cacheRaises, storeRaises) ==
    IF redis_enabled /\ ~cacheRaises /\ ch[execution_id] # None
    THEN [result |-> Loads(ch[execution_id]), source |-> "cache"]
    ELSE IF ~supabase THEN [result |-> None, source |-> "none"]
    ELSE IF storeRaises \/ st[execution_id] = None
         THEN [result |-> None, source |-> "none"]
         ELSE [result |-> st[execution_id], source |-> "store"]

\* write_state, line 165
Stamp(s, now) == [s EXCEPT !.updated_at = now]

\* write_state, step 1: update(...).eq("execution_id", id) changes the row
\* when there is one; an exception is printed and dropped.
StoreUpdate(st, s, storeRaises) ==
    IF supabase /\ ~storeRaises /\ st[s.execution_id] # None
    THEN [st EXCEPT ![s.execution_id] = s]
    ELSE st

\* write_state, step 2: setex under state:<id>; an exception is dropped.
CacheSetex(ch, s, cacheRaises) ==
    IF redis_enabled /\ ~cacheRaises
    THEN [ch EXCEPT ![s.execution_id] = Dumps(s)]
    ELSE ch

\* write_state has no return value and lets no exception out.
WriteOutcome(storeRaises, cacheRaises) == "returned"

write_state(st, ch, s, now, storeRaises, cacheRaises) ==
    LET s1 == Stamp(s, now) IN
    [ state |-> s1,
      store |-> StoreUpdate(st, s1, storeRaises),
      cache |-> CacheSetex(ch, s1, cacheRaises),
      outcome |-> WriteOutcome(storeRaises, cacheRaises) ]

\* main, lines 37-72: build the initial state, init_execution, write_state.
MainSetup(st, ch, p, portfolio_id, now, insertRaises, storeRaises, cacheRaises) ==
    LET init0 == initial_state(portfolio_id, TempId(p), now)
        ie == init_execution(st, p, init0, insertRaises)
        init1 == IF ie.id # NoId THEN [init0 EXCEPT !.execution_id = ie.id] ELSE init0
    IN write_state(ie.store, ch, init1, now, storeRaises, cacheRaises)

----------------------------------------------------------------------------
(* SpecCoord: clients of the CoordinationLayer *)

NoOp == [op |-> "none"]
NoAudit == [agent_reasoning |-> << >>, agent_decisions |-> << >>, risk_assessments |-> << >>]
NoReport == [kind |-> "none"]
NoCreate == [n |-> 0, wallet_address |-> "none"]
NoAnalysis == [done |-> FALSE, drawn |-> FALSE]

\* The wallet addresses, users and chains create_portfolio is called with.
Wallets == {"0xA", "0xB"}
Users == {"u1", "u2"}
Chains == {1, 137}

\* settings.MIN_APY_DIFF and settings.RISK_THRESHOLD as configured, in
\* hundredths (0.02 is 2).
DefaultSettings == [MIN_APY_DIFF |-> 2, RISK_THRESHOLD |-> 5]
NoRead == [key |-> NoId, iteration_count |-> 0]

\* The exceptions a call can meet: a collaborator that is not configured is
\* never called, so it cannot raise.
StoreFaults == IF supabase THEN BOOLEAN ELSE {FALSE}
CacheFaults == IF redis_enabled THEN BOOLEAN ELSE {FALSE}

\* The exceptions the two side-logging calls of one invocation can meet: the
\* audit tables answer, or they are out of reach for both calls.
LogFaults == IF supabase THEN {<<FALSE, FALSE>>, <<TRUE, TRUE>>} ELSE {<<FALSE, FALSE>>}

\* The execution ids the started clients hold.
IdsInUse == {callerState[p].execution_id : p \in {q \in Procs : callerState[q] # None}}

LoopInit ==
    /\ state = None
    /\ status = "init"
    /\ passes = 0
    /\ last = [agent |-> "none"]
    /\ invoked = << >>
    /\ okPasses = 0
    /\ orchFailed = FALSE
    /\ oracleNonTerminal = TRUE
    /\ audit = NoAudit
    /\ report = NoReport

CoordInit ==
    /\ supabase \in BOOLEAN
    /\ redis_enabled \in BOOLEAN
    /\ store = [k \in Keys |-> None]
    /\ cache = [k \in Keys |-> None]
    /\ clock = 0

ClientInit ==
    /\ callerState = [p \in Procs |-> None]
    /\ lastOp = NoOp
    /\ prevRead = NoRead

\* No create_portfolio call yet, on an empty portfolios table.
PortfolioInit ==
    /\ portfolios = << >>
    /\ issued = [w \in Wallets |-> {}]
    /\ lastCreate = NoCreate

\* The settings as configured, and no analysis drawn.
AnalysisInit ==
    /\ settings = DefaultSettings
    /\ analysis = NoAnalysis

Init == CoordInit /\ ClientInit /\ LoopInit /\ PortfolioInit /\ AnalysisInit

\* A client runs main up to its write of the initial state.
ClientStart(p) ==
    /\ callerState[p] = None
    /\ clock < MaxClock
    /\ \E insertRaises \in StoreFaults, storeRaises \in StoreFaults, cacheRaises \in CacheFaults :
         LET w == MainSetup(store, cache, p, TempPortfolio, clock + 1, insertRaises, storeRaises, cacheRaises) IN
         /\ callerState' = [callerState EXCEPT ![p] = w.state]
         /\ store' = w.store
         /\ cache' = w.cache
         /\ clock' = clock + 1
         /\ lastOp' = [op |-> "write", by |-> p, key |-> w.state.execution_id, stamp |-> clock + 1,
                       storeRaised |-> storeRaises, cacheRaised |-> cacheRaises,
                       outcome |-> w.outcome]
    /\ UNCHANGED <<supabase, redis_enabled, prevRead, loopVars, portfolioVars, analysisVars>>

\* A client's agent persists its state: the orchestrator after raising
\* iteration_count (d = 1), a worker agent without (d = 0).
ClientWrite(p) ==
    /\ callerState[p] # None
    /\ clock < MaxClock
    /\ \E d \in {0, 1}, storeRaises \in StoreFaults, cacheRaises \in CacheFaults :
         LET s == [callerState[p] EXCEPT !.iteration_count = @ + d]
             w == write_state(store, cache, s, clock + 1, storeRaises, cacheRaises) IN
         /\ callerState' = [callerState EXCEPT ![p] = w.state]
         /\ store' = w.store
         /\ cache' = w.cache
         /\ clock' = clock + 1
         /\ lastOp' = [op |-> "write", by |-> p, key |-> s.execution_id, stamp |-> clock + 1,
                       storeRaised |-> storeRaises, cacheRaised |-> cacheRaises,
                       outcome |-> w.outcome]
    /\ UNCHANGED <<supabase, redis_enabled, prevRead, loopVars, portfolioVars, analysisVars>>

\* read_state(k) by anyone.
ClientRead(k) ==
    /\ \E cacheRaises \in CacheFaults, storeRaises \in StoreFaults :
         LET r == read_state(store, cache, k, cacheRaises, storeRaises) IN
         /\ lastOp' = [op |-> "read", key |-> k, result |-> r.result, source |-> r.source,
                       cacheRaised |-> cacheRaises, storeRaised |-> storeRaises,
                       after |-> IF lastOp.op = "write" /\ lastOp.key = k THEN lastOp ELSE NoOp,
                       prev |-> prevRead]
         /\ prevRead' = IF r.result # None
                        THEN [key |-> k, iteration_count |-> r.result.iteration_count]
                        ELSE prevRead
    /\ UNCHANGED <<coordVars, callerState, loopVars, portfolioVars, analysisVars>>

\* The entry under state:<k> reaches its time-to-live (cache_ttl seconds).
CacheExpire(k) ==
    /\ cache[k] # None
    /\ cache' = [cache EXCEPT ![k] = None]
    /\ lastOp' = NoOp
    /\ UNCHANGED <<supabase, redis_enabled, store, clock, callerState, prevRead, loopVars,
                   portfolioVars, analysisVars>>

CoordNext ==
    \/ \E p \in Procs : ClientStart(p)
    \/ \E p \in Procs : ClientWrite(p)
    \/ \E k \in IdsInUse : ClientRead(k)
    \/ \E k \in IdsInUse : CacheExpire(k)

SpecCoord == Init /\ [][CoordNext]_vars

----------------------------------------------------------------------------
(* SpecPortfolio: create_portfolio on the portfolios table *)

NoPortfolio == 0    \* create_portfolio returning None

\* The rows of the table whose column col holds value.
RowsWith(rows, col, value) == {i \in 1..Len(rows) : rows[i][col] = value}

\* table.insert(data): a new row with the id the table assigns.
Insert(rows, data) ==
    LET row == [id |-> Len(rows) + 1, user_id |-> data.user_id,
                wallet_address |-> data.wallet_address, chain_id |-> data.chain_id]
    IN [rows |-> Append(rows, row), data |-> <<row>>]

\* table.upsert(data, on_conflict=col): the row that holds data's value in the
\* conflict column takes data's columns and keeps its id; without such a row,
\* an insert.  The result carries the row written.
Upsert(rows, data, on_conflict) ==
    LET hit == RowsWith(rows, on_conflict, data[on_conflict]) IN
    IF hit = {} THEN Insert(rows, data)
    ELSE LET i == CHOOSE k \in hit : \A j \in hit : k <= j
             row == [id |-> rows[i].id, user_id |-> data.user_id,
                     wallet_address |-> data.wallet_address, chain_id |-> data.chain_id]
         IN [rows |-> [rows EXCEPT ![i] = row], data |-> <<row>>]

\* create_portfolio with a plain insert in place of the upsert.
create_portfolio_inserts(rows, user_id, wallet_address, chain_id, raises) ==
    IF ~supabase THEN [id |-> NoPortfolio, rows |-> rows]
    ELSE IF raises THEN [id |-> NoPortfolio, rows |-> rows]
    ELSE LET data == [user_id |-> user_id, wallet_address |-> wallet_address,
                      chain_id |-> chain_id]
             result == Insert(rows, data)
         IN [id |-> result.data[1].id, rows |-> result.rows]

\* create_portfolio: the id it returns and the table after it.
create_portfolio(rows, user_id, wallet_address, chain_id, raises) ==
    IF ~supabase THEN [id |-> NoPortfolio, rows |-> rows]
    ELSE IF raises THEN [id |-> NoPortfolio, rows |-> rows]
    ELSE LET data == [user_id |-> user_id, wallet_address |-> wallet_address,
                      chain_id |-> chain_id]
             result == Upsert(rows, data, "wallet_address")
         IN IF Len(result.data) > 0
            THEN [id |-> result.data[1].id, rows |-> result.rows]
            ELSE [id |-> NoPortfolio, rows |-> result.rows]

\* One create_portfolio call: the table after it and the record of the call.
CreateCall(user_id, wallet_address, chain_id, raises) ==
    LET r == create_portfolio(portfolios, user_id, wallet_address, chain_id, raises)
        had == RowsWith(portfolios, "wallet_address", wallet_address)
    IN
    /\ portfolios' = r.rows
    /\ issued' = [issued EXCEPT ![wallet_address] =
                    IF r.id = NoPortfolio THEN @ ELSE @ \cup {r.id}]
    /\ lastCreate' = [n |-> lastCreate.n + 1, user_id |-> user_id,
                      wallet_address |-> wallet_address, chain_id |-> chain_id,
                      id |-> r.id, raised |-> raises,
                      before |-> issued[wallet_address],
                      rowBefore |-> IF had = {} THEN None
                                    ELSE portfolios[CHOOSE i \in had : TRUE]]

\* A caller (main, lines 24-30) creates or gets the portfolio of a wallet.
CreatePortfolio(user_id, wallet_address, chain_id) ==
    /\ lastCreate.n < MaxCreates
    /\ \E raises \in StoreFaults :
         CreateCall(user_id, wallet_address, chain_id, raises)
    /\ UNCHANGED <<coordVars, clientVars, loopVars, analysisVars>>

PortfolioNext ==
    \E user_id \in Users, wallet_address \in Wallets, chain_id \in Chains :
        CreatePortfolio(user_id, wallet_address, chain_id)

SpecPortfolio == Init /\ [][PortfolioNext]_vars

----------------------------------------------------------------------------
(* Agents *)

\* BaseAgent.log_reasoning, the in-memory half: one entry "<name>: <reasoning>".
log_reasoning(s, name, reasoning) ==
    [s EXCEPT !.agent_reasoning = Append(@, [agent |-> name, text |-> reasoning])]

\* A side-logging call whose insert raises lets the exception out.
SideLogOutcome_escapes(raises) == IF raises THEN "raised" ELSE "returned"

\* log_agent_decision, log_agent_reasoning and record_risk_assessment: the
\* insert runs in a try whose except prints the exception and drops it.
SideLogOutcome(raises) == "returned"

\* log_agent_reasoning writing the same step number into every row.
log_agent_reasoning_fixed_step(au, execution_id, agent_name, step_number, raises) ==
    IF ~supabase \/ raises THEN au
    ELSE [au EXCEPT !.agent_reasoning =
            Append(@, [execution_id |-> execution_id, agent_name |-> agent_name,
                       step_number |-> 0])]

\* log_agent_reasoning: one row in agent_reasoning when there is a client
\* and the insert does not raise.
log_agent_reasoning(au, execution_id, agent_name, step_number, raises) ==
    IF ~supabase \/ raises THEN au
    ELSE [au EXCEPT !.agent_reasoning =
            Append(@, [execution_id |-> execution_id, agent_name |-> agent_name,
                       step_number |-> step_number])]

\* log_agent_decision: one row in agent_decisions.
log_agent_decision(au, execution_id, agent_name, decision_type, raises) ==
    IF ~supabase \/ raises THEN au
    ELSE [au EXCEPT !.agent_decisions =
            Append(@, [execution_id |-> execution_id, agent_name |-> agent_name,
                       decision_type |-> decision_type])]

\* record_risk_assessment: one row in risk_assessments.
record_risk_assessment(au, execution_id, protocol, risk_score, safe, raises) ==
    IF ~supabase \/ raises THEN au
    ELSE [au EXCEPT !.risk_assessments =
            Append(@, [execution_id |-> execution_id, protocol |-> protocol,
                       risk_score |-> risk_score, safe |-> safe])]

\* An agent's two side-logging calls of one invocation: some exception got out.
SideLogEscapes(firstRaises, secondRaises) ==
    "raised" \in {SideLogOutcome(firstRaises), SideLogOutcome(secondRaises)}

(* The decision oracle (Gemini).  A reply is the call failing, text that is
   not JSON, JSON that is not an object, or an object whose next_agent and
   reasoning are each present or missing. *)
Missing == "<missing>"
OracleAgents == {"defi_agent", "risk_agent", "qa_agent", END, "bogus"}
OracleReplies ==
    {[kind |-> k, next_agent |-> Missing, reasoning |-> Missing] :
        k \in {"call_failed", "not_json", "not_object"}}
    \cup {[kind |-> "object", next_agent |-> a, reasoning |-> "r"] : a \in OracleAgents}
    \cup {[kind |-> "object", next_agent |-> a, reasoning |-> r] :
            a \in {"defi_agent", Missing}, r \in {Missing}}
    \cup {[kind |-> "object", next_agent |-> Missing, reasoning |-> "r"]}

\* OrchestratorAgent.execute, lines 27-33: generate_content, json.loads and the
\* first decision.get raise for every reply that is not a JSON object.
OracleRaises(reply) == reply.kind # "object"

\* decision.get(key, default)
DecisionGet(value, default) == IF value = Missing THEN default ELSE value

\* The parsed decision dict.
Decision(reply) == [next_agent |-> reply.next_agent, reasoning |-> reply.reasoning]

\* The try block without its iteration_count += 1.
OrchestratorUpdate_no_increment(s, reply) ==
    LET reasoning == DecisionGet(reply.reasoning, "No reasoning provided")
        next_agent == DecisionGet(reply.next_agent, END)
    IN [log_reasoning(s, "Orchestrator", reasoning) EXCEPT
            !.orchestrator_decision = Decision(reply),
            !.next_agent = next_agent]

\* OrchestratorAgent.execute, the try block up to write_state (lines 31-50).
OrchestratorUpdate(s, reply) ==
    LET reasoning == DecisionGet(reply.reasoning, "No reasoning provided")
        next_agent == DecisionGet(reply.next_agent, END)
    IN [log_reasoning(s, "Orchestrator", reasoning) EXCEPT
            !.orchestrator_decision = Decision(reply),
            !.next_agent = next_agent,
            !.iteration_count = @ + 1]

\* The except block without its routing to END.
OrchestratorExcept_no_route(s, e) ==
    [s EXCEPT !.error_messages = Append(@, e)]

\* OrchestratorAgent.execute, the except block (lines 58-62).
OrchestratorExcept(s, e) ==
    [s EXCEPT !.error_messages = Append(@, e), !.next_agent = END]

\* get_all_opportunities(): the lists the opportunity source can supply.
OpportunityLists ==
    { << >>,
      << [protocol |-> "aave", apy |-> 5], [protocol |-> "compound", apy |-> 9] >>,
      << [protocol |-> "aave", apy |-> 6], [protocol |-> "compound", apy |-> 6] >> }

\* settings.MIN_APY_DIFF and settings.RISK_THRESHOLD
MIN_APY_DIFF == settings.MIN_APY_DIFF
RISK_THRESHOLD == settings.RISK_THRESHOLD

\* RiskModel.assess_protocol: the scores the model can give.
RiskScores == {4, 5}

\* DeFiAgent._analyze_opportunities, lines 60-67: the loop over the positions
\* stops at the first one that has an apy (0: none has).
RECURSIVE ScanPositions(_, _)
ScanPositions(positions, i) ==
    IF i > Len(positions) THEN 0
    ELSE IF positions[i].has_apy THEN i
    ELSE ScanPositions(positions, i + 1)

FirstWithApy(positions) == ScanPositions(positions, 1)

\* A scan that lets a later opportunity of equal apy replace the one held.
RECURSIVE MaxScanKeepsLast(_, _, _)
MaxScanKeepsLast(opportunities, i, held) ==
    IF i > Len(opportunities) THEN held
    ELSE MaxScanKeepsLast(opportunities, i + 1,
                          IF opportunities[i].apy >= opportunities[held].apy THEN i ELSE held)

BestIndex_keeps_last(opportunities) == MaxScanKeepsLast(opportunities, 2, 1)

\* max(opportunities, key=apy), line 70: one pass over the list that holds an
\* element and replaces it by a later one of strictly greater apy.
RECURSIVE MaxScan(_, _, _)
MaxScan(opportunities, i, held) ==
    IF i > Len(opportunities) THEN held
    ELSE MaxScan(opportunities, i + 1,
                 IF opportunities[i].apy > opportunities[held].apy THEN i ELSE held)

BestIndex(opportunities) == MaxScan(opportunities, 2, 1)

\* max() of an empty list raises ValueError.
AnalyzeRaises(opportunities) == Len(opportunities) = 0

\* balances.get("USDC", 0)
UsdcOf(balances) == IF "USDC" \in DOMAIN balances THEN balances.USDC ELSE 0

\* The migrate dict of lines 76-86.
Migrate(current_protocol, best, balances, current_apy, apy_diff) ==
    [ action |-> "migrate",
      source |-> current_protocol,
      destination |-> best.protocol,
      asset |-> "USDC",
      amount |-> UsdcOf(balances),
      current_apy |-> current_apy,
      new_apy |-> best.apy,
      apy_gain |-> apy_diff,
      reasoning |-> "Found APY gain" ]

\* The hold dict of lines 88-91.
Hold == [ action |-> "hold", reasoning |-> "Not worth gas costs" ]

\* _analyze_opportunities migrating already at a gain equal to the threshold.
_analyze_opportunities_at_threshold(positions, balances, opportunities) ==
    LET c == FirstWithApy(positions)
        current_apy == IF c = 0 THEN 0 ELSE positions[c].apy
        current_protocol == IF c = 0 THEN "wallet" ELSE positions[c].protocol
        best == opportunities[BestIndex(opportunities)]
        apy_diff == best.apy - current_apy
    IN IF apy_diff >= MIN_APY_DIFF
       THEN Migrate(current_protocol, best, balances, current_apy, apy_diff)
       ELSE Hold

\* DeFiAgent._analyze_opportunities
_analyze_opportunities(positions, balances, opportunities) ==
    LET c == FirstWithApy(positions)
        current_apy == IF c = 0 THEN 0 ELSE positions[c].apy
        current_protocol == IF c = 0 THEN "wallet" ELSE positions[c].protocol
        best == opportunities[BestIndex(opportunities)]
        apy_diff == best.apy - current_apy
    IN IF apy_diff > MIN_APY_DIFF
       THEN Migrate(current_protocol, best, balances, current_apy, apy_diff)
       ELSE Hold

\* DeFiAgent.execute that also takes a migration's amount out of balances.
DeFiUpdate_moves_balance(s, opportunities) ==
    LET proposal == _analyze_opportunities(s.positions, s.balances, opportunities)
    IN [log_reasoning(s, "DeFi_Agent", proposal.reasoning) EXCEPT
            !.defi_proposal = proposal,
            !.balances = IF proposal.action = "migrate" THEN [@ EXCEPT !.USDC = 0] ELSE @,
            !.next_agent = "orchestrator"]

\* DeFiAgent.execute up to write_state (lines 21-51).
DeFiUpdate(s, opportunities) ==
    LET proposal == _analyze_opportunities(s.positions, s.balances, opportunities)
    IN [log_reasoning(s, "DeFi_Agent", proposal.reasoning) EXCEPT
            !.defi_proposal = proposal,
            !.next_agent = "orchestrator"]

\* A short circuit on the absent proposal alone: a hold is assessed.
RiskShortCircuits_only_absent(s) == s.defi_proposal = None

\* RiskAgent.execute, line 20: no proposal, or a hold.
RiskShortCircuits(s) ==
    IF s.defi_proposal = None THEN TRUE ELSE s.defi_proposal.action = "hold"

\* RiskAgent.execute, lines 21-24.
RiskNoAction(s) ==
    [s EXCEPT !.risk_assessment = [safe |-> TRUE, score |-> 0],
              !.next_agent = "orchestrator"]

\* RiskAgent.execute, lines 26-61, up to write_state.
RiskUpdate(s, risk_score) ==
    LET protocol == IF "destination" \in DOMAIN s.defi_proposal
                    THEN s.defi_proposal.destination ELSE "Unknown"
        is_safe == risk_score < RISK_THRESHOLD
    IN [log_reasoning(s, "Risk_Agent", IF is_safe THEN "SAFE" ELSE "TOO RISKY") EXCEPT
            !.risk_assessment = [ protocol |-> protocol, risk_score |-> risk_score,
                                  safe |-> is_safe, threshold |-> RISK_THRESHOLD ],
            !.next_agent = "orchestrator"]

\* What RiskAgent.execute returns: the state on the short circuit (line 24),
\* nothing after an assessment (line 66).
RiskReturns(s) == IF RiskShortCircuits(s) THEN "state" ELSE "None"

\* The calls of risk_model.assess_protocol one execute makes: none on the
\* short circuit, the one of line 30 otherwise.
RiskScorerCalls(s) == IF RiskShortCircuits(s) THEN 0 ELSE 1

\* An agent of a reserved slot (validation), following the execute contract:
\* own field, one reasoning entry, back to the orchestrator.
QaUpdate(s) ==
    [log_reasoning(s, "QA_Agent", "validated") EXCEPT
        !.qa_results = [valid |-> TRUE],
        !.next_agent = "orchestrator"]

----------------------------------------------------------------------------
(* SpecDeFi: _analyze_opportunities on drawn inputs *)

\* The opportunities the source can list: protocol and apy in hundredths.
Protocols == {"aave", "compound"}
Apys == {5, 7, 9}
Opportunities == [protocol : Protocols, apy : Apys]

\* The opportunity lists of up to MaxOpps entries.
DrawnOpportunityLists == UNION {[1..k -> Opportunities] : k \in 0..MaxOpps}

\* state["positions"] in iteration order: none, one without an apy, one with,
\* and two where the first or the second is the first with an apy.
PositionMaps ==
    { << >>,
      << [protocol |-> "Aave", has_apy |-> FALSE, apy |-> 0] >>,
      << [protocol |-> "Aave", has_apy |-> TRUE, apy |-> 5] >>,
      << [protocol |-> "Aave", has_apy |-> FALSE, apy |-> 0],
         [protocol |-> "Compound", has_apy |-> TRUE, apy |-> 7] >>,
      << [protocol |-> "Aave", has_apy |-> TRUE, apy |-> 5],
         [protocol |-> "Compound", has_apy |-> TRUE, apy |-> 7] >> }

\* state["balances"], with and without a USDC entry.
BalanceMaps == { [USDC |-> 10000, ETH |-> 2], [ETH |-> 2] }

\* The values settings.MIN_APY_DIFF is configured with.
MinApyDiffs == {2, 5}

\* The inputs are drawn; nothing else of the system runs.
InitDeFi ==
    /\ supabase = FALSE
    /\ redis_enabled = FALSE
    /\ store = [k \in Keys |-> None]
    /\ cache = [k \in Keys |-> None]
    /\ clock = 0
    /\ ClientInit
    /\ LoopInit
    /\ PortfolioInit
    /\ settings \in {[DefaultSettings EXCEPT !.MIN_APY_DIFF = m] : m \in MinApyDiffs}
    /\ analysis \in {[done |-> FALSE, drawn |-> TRUE, positions |-> ps, balances |-> bs,
                       opportunities |-> os] :
                          ps \in PositionMaps, bs \in BalanceMaps, os \in DrawnOpportunityLists}

\* DeFiAgent.execute, lines 26-30: the call of _analyze_opportunities, whose
\* exception nothing in execute catches.
Analyze ==
    /\ analysis.drawn
    /\ ~analysis.done
    /\ LET raised == AnalyzeRaises(analysis.opportunities) IN
       analysis' =
         [done |-> TRUE, drawn |-> TRUE, positions |-> analysis.positions,
          balances |-> analysis.balances, opportunities |-> analysis.opportunities,
          raised |-> raised,
          best |-> IF raised THEN 0 ELSE BestIndex(analysis.opportunities),
          proposal |-> IF raised THEN None
                       ELSE _analyze_opportunities(analysis.positions, analysis.balances,
                                                   analysis.opportunities)]
    /\ UNCHANGED <<coordVars, clientVars, loopVars, portfolioVars, settings>>

DeFiNext == Analyze

SpecDeFi == InitDeFi /\ [][DeFiNext]_vars

----------------------------------------------------------------------------
(* Spec: main and the control loop *)

BoundMsg == "iteration bound exhausted"
UnrecognizedMsg == "unrecognized agent"
KnownAgents == {"orchestrator", "defi_agent", "risk_agent", "qa_agent"}
NonTerminalReply(reply) ==
    reply.kind = "object" /\ reply.next_agent \in KnownAgents

\* main, lines 14-72: the portfolio of the wallet (a uuid4 when
\* create_portfolio returns none), the initial state, init_execution and the
\* first write_state.  The store answers both inserts of the setup (portfolio
\* and execution row) or neither.
MainStart ==
    /\ status = "init"
    /\ \E insertRaises \in StoreFaults, storeRaises \in StoreFaults, cacheRaises \in CacheFaults :
         /\ CreateCall(DemoUser, DemoWallet, DemoChain, insertRaises)
         /\ LET portfolio_id == IF lastCreate'.id = NoPortfolio
                                THEN TempPortfolio ELSE lastCreate'.id
                w == MainSetup(store, cache, MainProc, portfolio_id, clock + 1,
                               insertRaises, storeRaises, cacheRaises)
            IN
            /\ state' = w.state
            /\ store' = w.store
            /\ cache' = w.cache
            /\ clock' = clock + 1
    /\ status' = "running"
    /\ UNCHANGED <<report, supabase, redis_enabled, clientVars, analysisVars, passes, last,
                   invoked, okPasses, orchFailed, oracleNonTerminal, audit>>

\* The control loop dispatches to the agent next_agent names.
Dispatch(a) ==
    /\ status = "running"
    /\ passes < MaxPasses
    /\ state.next_agent = a
    /\ passes' = passes + 1

\* The agent persisted its state and returned it.
Persist(s, storeRaises, cacheRaises) ==
    LET w == write_state(store, cache, s, clock + 1, storeRaises, cacheRaises) IN
    /\ state' = w.state
    /\ store' = w.store
    /\ cache' = w.cache
    /\ clock' = clock + 1

\* The invocation ended before write_state.
NoPersist == UNCHANGED <<store, cache, clock, audit>>

\* The record of an invocation: what it was given, how it ended, what it
\* returned, and the exceptions its side logging and its write_state met.
Invocation(agent, input, outcome, returned, logRaised, storeRaises, cacheRaises) ==
    [agent |-> agent, input |-> input, pre |-> state, outcome |-> outcome,
     scored |-> IF agent = "Risk_Agent" THEN RiskScorerCalls(state) ELSE 0,
     returned |-> returned, wrote |-> (outcome = "ok"),
     logRaised |-> logRaised,
     storeRaised |-> (outcome = "ok" /\ storeRaises),
     cacheRaised |-> (outcome = "ok" /\ cacheRaises)]

\* OrchestratorAgent.execute: an exception in the try block, whether of the
\* oracle or of a call after it, is taken by the except block.
OrchestratorExecute ==
    /\ Dispatch("orchestrator")
    /\ \E reply \in OracleReplies, logRaises \in LogFaults,
          storeRaises \in StoreFaults, cacheRaises \in CacheFaults :
         LET reasoningRaises == logRaises[1]
             decisionRaises == logRaises[2]
             failed == OracleRaises(reply) \/ SideLogEscapes(reasoningRaises, decisionRaises)
             s == OrchestratorUpdate(state, reply)
         IN
         /\ IF failed
            THEN /\ state' = OrchestratorExcept(state, reply.kind)
                 /\ NoPersist
            ELSE /\ Persist(s, storeRaises, cacheRaises)
                 /\ audit' = log_agent_decision(
                                log_agent_reasoning(audit, state.execution_id, "Orchestrator",
                                                    state.iteration_count, reasoningRaises),
                                state.execution_id, "Orchestrator", "routing", decisionRaises)
         /\ last' = Invocation("Orchestrator", reply, IF failed THEN "failed" ELSE "ok", "state",
                                ~OracleRaises(reply) /\ (reasoningRaises \/ decisionRaises),
                                storeRaises, cacheRaises)
         /\ okPasses' = IF failed THEN okPasses ELSE okPasses + 1
         /\ orchFailed' = (orchFailed \/ failed)
         /\ oracleNonTerminal' = (oracleNonTerminal /\ NonTerminalReply(reply))
    /\ invoked' = Append(invoked, "Orchestrator")
    /\ UNCHANGED <<report, supabase, redis_enabled, clientVars, portfolioVars, analysisVars, status>>

\* DeFiAgent.execute: an exception of _analyze_opportunities or of a call
\* after it leaves execute, and the run of main with it.
DeFiExecute ==
    /\ Dispatch("defi_agent")
    /\ \E opportunities \in OpportunityLists, logRaises \in LogFaults,
          storeRaises \in StoreFaults, cacheRaises \in CacheFaults :
         LET reasoningRaises == logRaises[1]
             decisionRaises == logRaises[2]
             raised == AnalyzeRaises(opportunities) \/ SideLogEscapes(reasoningRaises, decisionRaises)
         IN
         /\ IF raised
            THEN /\ status' = "crashed"
                 /\ UNCHANGED state
                 /\ NoPersist
            ELSE /\ Persist(DeFiUpdate(state, opportunities), storeRaises, cacheRaises)
                 /\ audit' = log_agent_decision(
                                log_agent_reasoning(audit, state.execution_id, "DeFi_Agent",
                                                    state.iteration_count, reasoningRaises),
                                state.execution_id, "DeFi_Agent", "strategy", decisionRaises)
                 /\ status' = status
         /\ last' = Invocation("DeFi_Agent", opportunities, IF raised THEN "raised" ELSE "ok",
                                IF raised THEN "nothing" ELSE "state",
                                ~AnalyzeRaises(opportunities) /\ (reasoningRaises \/ decisionRaises),
                                storeRaises, cacheRaises)
    /\ invoked' = Append(invoked, "DeFi_Agent")
    /\ UNCHANGED <<report, supabase, redis_enabled, clientVars, portfolioVars, analysisVars, okPasses,
                   orchFailed, oracleNonTerminal>>

\* RiskAgent.execute.  The loop's handling of an agent that returns nothing is
\* not fixed by the specification: the invocation fails, or the loop goes on
\* with the dict the agent changed in place.
RiskExecute ==
    /\ Dispatch("risk_agent")
    /\ IF RiskShortCircuits(state)
       THEN /\ state' = RiskNoAction(state)
            /\ last' = [Invocation("Risk_Agent", 0, "ok", RiskReturns(state), FALSE, FALSE, FALSE)
                           EXCEPT !.wrote = FALSE]
            /\ NoPersist
            /\ UNCHANGED status
       ELSE \E risk_score \in RiskScores, logRaises \in LogFaults, storeRaises \in StoreFaults,
               cacheRaises \in CacheFaults, tolerated \in BOOLEAN :
            LET reasoningRaises == logRaises[1]
                recordRaises == logRaises[2]
                raised == SideLogEscapes(reasoningRaises, recordRaises)
                s == RiskUpdate(state, risk_score)
            IN
            /\ IF raised
               THEN /\ status' = "crashed"
                    /\ UNCHANGED state
                    /\ NoPersist
               ELSE /\ Persist(s, storeRaises, cacheRaises)
                    /\ audit' = record_risk_assessment(
                                   log_agent_reasoning(audit, state.execution_id, "Risk_Agent",
                                                       state.iteration_count, reasoningRaises),
                                   state.execution_id, s.risk_assessment.protocol, risk_score,
                                   s.risk_assessment.safe, recordRaises)
                    /\ status' = IF RiskReturns(state) = "state" \/ tolerated
                                 THEN status ELSE "crashed"
            /\ last' = Invocation("Risk_Agent", risk_score, IF raised THEN "raised" ELSE "ok",
                                   IF raised THEN "nothing" ELSE RiskReturns(state),
                                   reasoningRaises \/ recordRaises, storeRaises, cacheRaises)
    /\ invoked' = Append(invoked, "Risk_Agent")
    /\ UNCHANGED <<report, supabase, redis_enabled, clientVars, portfolioVars, analysisVars, okPasses,
                   orchFailed, oracleNonTerminal>>

QaExecute ==
    /\ Dispatch("qa_agent")
    /\ \E logRaises \in LogFaults, storeRaises \in StoreFaults, cacheRaises \in CacheFaults :
         /\ Persist(QaUpdate(state), storeRaises, cacheRaises)
         /\ audit' = log_agent_reasoning(audit, state.execution_id, "QA_Agent",
                                         state.iteration_count, logRaises[1])
         /\ last' = Invocation("QA_Agent", 0, "ok", "state", logRaises[1], storeRaises,
                                cacheRaises)
    /\ invoked' = Append(invoked, "QA_Agent")
    /\ UNCHANGED <<report, supabase, redis_enabled, clientVars, portfolioVars, analysisVars, status,
                   okPasses, orchFailed, oracleNonTerminal>>

\* next_agent is the terminal sentinel: the loop ends.
LoopEnd ==
    /\ status = "running"
    /\ state.next_agent = END
    /\ status' = "done"
    /\ UNCHANGED <<report, coordVars, clientVars, portfolioVars, analysisVars, state, passes, last,
                   invoked, okPasses, orchFailed, oracleNonTerminal, audit>>

\* The maximum pass count is reached: forced transition to the sentinel.
LoopBoundExhausted ==
    /\ status = "running"
    /\ state.next_agent # END
    /\ passes >= MaxPasses
    /\ state' = [state EXCEPT !.error_messages = Append(@, BoundMsg), !.next_agent = END]
    /\ status' = "done"
    /\ UNCHANGED <<report, coordVars, clientVars, portfolioVars, analysisVars, passes, last, invoked,
                   okPasses, orchFailed, oracleNonTerminal, audit>>

\* next_agent names no agent: a fatal routing error.
LoopUnrecognized ==
    /\ status = "running"
    /\ passes < MaxPasses
    /\ state.next_agent \notin KnownAgents \cup {END}
    /\ state' = [state EXCEPT !.error_messages = Append(@, UnrecognizedMsg), !.next_agent = END]
    /\ status' = "done"
    /\ UNCHANGED <<report, coordVars, clientVars, portfolioVars, analysisVars, passes, last, invoked,
                   okPasses, orchFailed, oracleNonTerminal, audit>>

\* The state fields main prints after ainvoke returned (lines 84-98).
ReportedFields == {"agent_reasoning", "defi_proposal", "risk_assessment", "qa_results"}

\* What main prints: the fields of the final state when ainvoke returned, the
\* exception and its traceback when it raised (lines 100-103).
Report(st, s) ==
    IF st = "done"
    THEN [kind |-> "complete", shown |-> [f \in ReportedFields |-> s[f]]]
    ELSE [kind |-> "error", shown |-> [f \in {} |-> s[f]]]

\* main, lines 81-103: the workflow invocation has ended, main reports.
MainReport ==
    /\ status \in {"done", "crashed"}
    /\ report = NoReport
    /\ report' = Report(status, state)
    /\ UNCHANGED <<coordVars, clientVars, portfolioVars, analysisVars, state, status, passes,
                   last, invoked, okPasses, orchFailed, oracleNonTerminal, audit>>

Next ==
    \/ MainStart
    \/ OrchestratorExecute
    \/ DeFiExecute
    \/ RiskExecute
    \/ QaExecute
    \/ LoopEnd
    \/ LoopBoundExhausted
    \/ LoopUnrecognized
    \/ MainReport

Spec == Init /\ [][Next]_vars

----------------------------------------------------------------------------
(* Claims about the CoordinationLayer, checked under SpecCoord *)

ReadAfterWrite == lastOp.op = "read" /\ lastOp.after.op = "write"

\* C1: a write_state followed immediately by read_state of the same execution
\* id returns a state whose updated_at is >= the updated_at that write
\* stamped, whether the cache or the store answered.  Stated here for the
\* healthy store alone (client configured, row present, neither the update
\* nor the read raising), which is one of the combinations the claim covers.
C1_ReadAfterWriteIsFresh ==
    ( /\ ReadAfterWrite
      /\ supabase
      /\ store[lastOp.key] # None
      /\ ~lastOp.after.storeRaised
      /\ ~lastOp.storeRaised )
    => ( /\ lastOp.result # None
         /\ lastOp.result.updated_at >= lastOp.after.stamp )

\* C2: when the Store write inside write_state fails (the store raises, or
\* there is no store client), the write_state call itself fails: the caller
\* gets an error outcome.
C2_StoreFailureFailsTheWrite ==
    (lastOp.op = "write" /\ (lastOp.storeRaised \/ ~supabase))
    => lastOp.outcome = "raised"

\* C3: read_state answers from the cache when the cache holds the key, and
\* when the store answered with a state, the (enabled, healthy) cache holds
\* that state under the key when read_state returns.
C3_StoreHitRepopulatesCache ==
    (lastOp.op = "read" /\ redis_enabled /\ ~lastOp.cacheRaised)
    => ( /\ cache[lastOp.key] # None => lastOp.source = "cache"
         /\ lastOp.source = "store"
               => ( /\ cache[lastOp.key] # None
                    /\ Loads(cache[lastOp.key]) = lastOp.result ) )

\* C4: when the cache lookup raises, or the cache is disabled, read_state
\* returns exactly what the store holds for the id (None when it holds no
\* record), the store lookup itself not raising.
C4_CacheIsBestEffortForReads ==
    ( /\ lastOp.op = "read"
      /\ lastOp.cacheRaised \/ ~redis_enabled
      /\ ~lastOp.storeRaised )
    => lastOp.result = store[lastOp.key]

\* C4 witness: the cache lookup raised on a key whose cache entry differs from
\* the store's row, and the store's state was returned.
C4_Witness ==
    /\ lastOp.op = "read"
    /\ lastOp.cacheRaised
    /\ cache[lastOp.key] # None
    /\ lastOp.result # None
    /\ lastOp.result # Loads(cache[lastOp.key])
    /\ lastOp.result = store[lastOp.key]

\* C8: of two read_state calls on the same execution id, the later returns an
\* iteration_count >= the earlier one's, whatever write_state calls, faults
\* and cache expiries come between.  Stated for the ids the store assigned
\* (each belongs to one execution).
C8_ReadsNeverGoBack ==
    ( /\ lastOp.op = "read"
      /\ lastOp.result # None
      /\ lastOp.key \in {RowId(p) : p \in Procs}
      /\ lastOp.prev.key = lastOp.key )
    => lastOp.result.iteration_count >= lastOp.prev.iteration_count

\* The clients that have run init_execution.
Started == {p \in Procs : callerState[p] # None}

\* C16: init_execution always yields a usable execution id (the inserted
\* row's id with the store available, a generated identifier without it), and
\* the ids of two distinct executions are different.
C16_ExecutionIdsAreUnique ==
    \A p \in Started :
        /\ callerState[p].execution_id # NoId
        /\ supabase /\ store[RowId(p)] # None => callerState[p].execution_id = RowId(p)
        /\ \A q \in Started \ {p} :
              callerState[q].execution_id # callerState[p].execution_id

\* What read_state returns for the execution of client p, nothing failing.
ReadOf(p) ==
    IF p \in Started
    THEN read_state(store, cache, callerState[p].execution_id, FALSE, FALSE).result
    ELSE None

\* C17: two executions share no mutable state: a write_state by one client
\* (that of its start included) never changes what read_state returns for
\* the execution of another, degraded mode with the cache enabled included.
C17_WritesDoNotCrossExecutions ==
    [][ \A p \in Procs :
          (lastOp'.op = "write" /\ lastOp'.by = p)
          => \A q \in Started \ {p} : ReadOf(q)' = ReadOf(q) ]_vars

----------------------------------------------------------------------------
(* Claims about the agents and the control loop, checked under Spec *)

Range(seq) == {seq[i] : i \in 1..Len(seq)}
Finished == status \in {"done", "crashed"}

\* C5: with an oracle that always returns a non-terminal agent, the control
\* loop terminates within the maximum pass count, and in the final state
\* next_agent is END and error_messages holds a bound-exhaustion message.
C5_BoundExhaustionEndsTheRun ==
    (Finished /\ oracleNonTerminal)
    => ( /\ status = "done"
         /\ passes <= MaxPasses
         /\ state.next_agent = END
         /\ BoundMsg \in Range(state.error_messages) )

\* C6: after N agent invocations agent_reasoning has exactly N entries, one
\* per invocation in invocation order, and an invocation leaves the earlier
\* entries as they were.
C6_OneReasoningEntryPerInvocation ==
    status # "init"
    => ( /\ Len(state.agent_reasoning) = Len(invoked)
         /\ \A i \in 1..Len(invoked) : state.agent_reasoning[i].agent = invoked[i]
         /\ last.agent # "none"
              => SubSeq(state.agent_reasoning, 1, Len(last.pre.agent_reasoning))
                   = last.pre.agent_reasoning )

\* C7: iteration_count equals the number of successful orchestrator passes at
\* every moment (so also when the loop has terminated); an orchestrator pass
\* that obtained a decision raises it by exactly 1; a failed orchestrator
\* pass and every other agent leave it unchanged (so it never decreases).
C7_IterationCountCountsSuccessfulPasses ==
    status # "init"
    => ( /\ state.iteration_count = okPasses
         /\ last.agent # "none"
              => state.iteration_count
                   = last.pre.iteration_count
                     + (IF last.agent = "Orchestrator" /\ last.outcome = "ok" THEN 1 ELSE 0) )

\* C7 witness: a terminated run of three invocations: a successful
\* orchestrator pass, a worker agent, a failed orchestrator pass.
C7_Witness ==
    /\ status = "done"
    /\ Len(invoked) = 3
    /\ orchFailed
    /\ okPasses = 1
    /\ state.iteration_count = 1

\* C9: when the oracle call fails or its reply is not a structured decision,
\* execute raises nothing: it appends one error message, sets next_agent to
\* END, leaves iteration_count unchanged, and no agent is invoked afterwards.
C9_OracleFailureEndsTheRunQuietly ==
    orchFailed
    => ( /\ last.agent = "Orchestrator"
         /\ last.outcome = "failed"
         /\ status \in {"running", "done"}
         /\ state.next_agent = END
         /\ state.error_messages = Append(last.pre.error_messages, last.input.kind)
         /\ state.iteration_count = last.pre.iteration_count )

\* C9 witness: the loop has ended after an orchestrator pass whose reply was
\* JSON but no object, following earlier passes.
C9_Witness ==
    /\ orchFailed
    /\ status = "done"
    /\ Len(invoked) >= 3
    /\ last.input.kind = "not_object"
    /\ state.next_agent = END

\* C10: when the oracle's reply parses but is malformed or lacks next_agent
\* or reasoning, the orchestrator fails the route: an error message is
\* recorded and next_agent is END, and the reply is not taken as a
\* successful routing decision.
C10_IncompleteReplyFailsTheRoute ==
    ( /\ last.agent = "Orchestrator"
      /\ \/ last.input.kind = "not_object"
         \/ /\ last.input.kind = "object"
            /\ Missing \in {last.input.next_agent, last.input.reasoning} )
    => ( /\ Len(state.error_messages) > Len(last.pre.error_messages)
         /\ state.next_agent = END
         /\ state.iteration_count = last.pre.iteration_count )

\* The closed set of agent identifiers (orchestrator.py, _build_prompt).
AgentIds ==
    {"orchestrator", "defi_agent", "risk_agent", "prediction_agent", "productivity_agent",
     "qa_agent"}

\* C11: in every reachable execution state next_agent is one of the agent
\* identifiers or END; a value of the oracle outside that set is never stored
\* in next_agent: the pass it came with ends with an error message appended
\* and next_agent END.
C11_NextAgentIsInTheClosedSet ==
    status # "init"
    => ( /\ state.next_agent \in AgentIds \cup {END}
         /\ ( /\ last.agent = "Orchestrator"
              /\ last.input.kind = "object"
              /\ last.input.next_agent \notin AgentIds \cup {END, Missing} )
            => ( /\ state.next_agent = END
                 /\ Len(state.error_messages) > Len(last.pre.error_messages) ) )

\* What an invocation leaves in the state: next_agent, the agents' output
\* fields, error_messages and agent_reasoning.
Produced(s) ==
    <<s.next_agent, s.orchestrator_decision, s.defi_proposal, s.risk_assessment, s.qa_results,
      s.error_messages, s.agent_reasoning>>

\* C12: with a healthy store (client configured, the execution's row present,
\* no call of the invocation raising), after any agent invocation has
\* returned, read_state(execution_id) yields a state with the same
\* next_agent, output fields, error_messages and agent_reasoning as the
\* in-memory state the agent produced.
C12_EveryInvocationIsPersisted ==
    ( /\ status = "running"
      /\ last.agent # "none"
      /\ supabase
      /\ store[state.execution_id] # None
      /\ ~last.storeRaised
      /\ ~last.cacheRaised )
    => LET r == read_state(store, cache, state.execution_id, FALSE, FALSE).result
       IN r # None /\ Produced(r) = Produced(state)

\* C13: every execute that does not raise returns the updated state, never
\* an absent value, so the control loop reads next_agent from what was
\* returned and the run goes on.
C13_ExecuteReturnsTheState ==
    (last.agent # "none" /\ last.outcome # "raised")
    => (last.returned = "state" /\ status # "crashed")

\* The state an invocation produces when nothing fails, from the state and
\* the input it was given.
Expected(inv) ==
    CASE inv.agent = "Orchestrator" -> OrchestratorUpdate(inv.pre, inv.input)
      [] inv.agent = "DeFi_Agent" -> DeFiUpdate(inv.pre, inv.input)
      [] inv.agent = "Risk_Agent" -> RiskUpdate(inv.pre, inv.input)
      [] inv.agent = "QA_Agent" -> QaUpdate(inv.pre)

\* C14: when a side-logging call (log_agent_reasoning, log_agent_decision,
\* record_risk_assessment) or the cache refresh inside write_state fails, the
\* invocation raises nothing and its state transition is the one of a run
\* without the failure: output field, next_agent and the rest are set, and the
\* store's row is rewritten (the row existing and the update itself not
\* raising).  Stated of the state as the invocation left it, before the
\* control loop ends the run.
C14_SideLoggingFailuresAreSwallowed ==
    (last.agent # "none" /\ status # "done" /\ (last.logRaised \/ last.cacheRaised))
    => ( /\ last.outcome = "ok"
         /\ state = Stamp(Expected(last), state.updated_at)
         /\ state.updated_at > last.pre.updated_at
         /\ (store[state.execution_id] # None /\ ~last.storeRaised)
               => store[state.execution_id] = state )

\* C14 witness: the risk agent assessed a proposal while both of its
\* side-logging inserts and the cache refresh raised: the assessment is in the
\* state and in the store's row, and no row reached the audit tables.
C14_Witness ==
    /\ last.agent = "Risk_Agent"
    /\ last.logRaised
    /\ last.cacheRaised
    /\ state.risk_assessment # None
    /\ state.next_agent = "orchestrator"
    /\ store[state.execution_id] = state
    /\ audit.risk_assessments = << >>

\* The proposal the risk agent was given is absent or a hold.
NothingToAssess(inv) ==
    IF inv.pre.defi_proposal = None THEN TRUE ELSE inv.pre.defi_proposal.action = "hold"

\* C21: invoked with a hold proposal or with none, the risk agent sets
\* risk_assessment to {safe: true, score: 0} and next_agent to "orchestrator"
\* and does not call the scorer; with any other proposal it calls the scorer
\* exactly once and marks the destination safe exactly when the score is
\* below the threshold.  next_agent is read before the control loop ends the
\* run.
C21_RiskAgentShortCircuitsOnHold ==
    (last.agent = "Risk_Agent" /\ last.outcome = "ok")
    => /\ status # "done" => state.next_agent = "orchestrator"
       /\ IF NothingToAssess(last)
          THEN /\ state.risk_assessment = [safe |-> TRUE, score |-> 0]
               /\ last.scored = 0
          ELSE /\ last.scored = 1
               /\ state.risk_assessment.protocol = last.pre.defi_proposal.destination
               /\ state.risk_assessment.risk_score = last.input
               /\ state.risk_assessment.safe = (last.input < settings.RISK_THRESHOLD)

\* C21 witness: the risk agent was given a hold proposal and answered with
\* {safe: true, score: 0} without a call of the scorer.
C21_Witness ==
    /\ last.agent = "Risk_Agent"
    /\ last.pre.defi_proposal # None
    /\ last.pre.defi_proposal.action = "hold"
    /\ last.scored = 0
    /\ state.risk_assessment = [safe |-> TRUE, score |-> 0]
    /\ state.next_agent = "orchestrator"

\* C22: what main reports includes the accumulated reasoning chain and every
\* error message of error_messages on every way the run ends: routing to END,
\* an oracle failure, an exception out of the workflow invocation.
C22_ReportHasReasoningAndErrors ==
    report.kind # "none"
    => ( /\ {"agent_reasoning", "error_messages"} \subseteq DOMAIN report.shown
         /\ report.shown["agent_reasoning"] = state.agent_reasoning
         /\ report.shown["error_messages"] = state.error_messages )

\* The fields an agent owns, and those every agent may change.
OwnedBy(agent) ==
    CASE agent = "Orchestrator" -> {"orchestrator_decision", "iteration_count", "error_messages"}
      [] agent = "DeFi_Agent" -> {"defi_proposal"}
      [] agent = "Risk_Agent" -> {"risk_assessment"}
      [] agent = "QA_Agent" -> {"qa_results"}
SharedFields == {"next_agent", "agent_reasoning", "updated_at"}

LoggedReasoning ==
    /\ last.agent # "none"
    /\ last.wrote
    /\ supabase
    /\ ~last.logRaised

\* C24: a reasoning entry carries as step_number the iteration_count the
\* state had when it was logged, and no two reasoning entries of an execution
\* share (execution_id, agent_name, step_number), the worker agents returning
\* to the orchestrator after each invocation.
C24_ReasoningKeysAreUnique ==
    LET rows == audit.agent_reasoning IN
    /\ \A i, j \in 1..Len(rows) : i < j => rows[i] # rows[j]
    /\ LoggedReasoning
         => ( /\ Len(rows) > 0
              /\ rows[Len(rows)] = [execution_id |-> last.pre.execution_id,
                                    agent_name |-> last.agent,
                                    step_number |-> last.pre.iteration_count] )

\* C24 witness: the DeFi agent logged twice in one execution, after the first
\* and after the second orchestrator pass, under different step numbers.
C24_Witness ==
    \E i, j \in 1..Len(audit.agent_reasoning) :
        /\ i < j
        /\ audit.agent_reasoning[i].agent_name = "DeFi_Agent"
        /\ audit.agent_reasoning[j].agent_name = "DeFi_Agent"
        /\ audit.agent_reasoning[i].execution_id = audit.agent_reasoning[j].execution_id
        /\ audit.agent_reasoning[i].step_number = 1
        /\ audit.agent_reasoning[j].step_number = 2

----------------------------------------------------------------------------
(* Claims about create_portfolio, checked under SpecPortfolio *)

\* C15: the calls of create_portfolio with one wallet address, whatever
\* their user_id and chain_id, all return the same portfolio id (a call that
\* reached the store returns an id), and the portfolios table holds exactly
\* one row for that wallet address afterwards; the table never holds two.
C15_CreatePortfolioIsIdempotent ==
    /\ \A w \in Wallets :
         /\ Cardinality(issued[w]) <= 1
         /\ Cardinality(RowsWith(portfolios, "wallet_address", w)) <= 1
         /\ \A id \in issued[w] :
              \E i \in RowsWith(portfolios, "wallet_address", w) : portfolios[i].id = id
    /\ (lastCreate.n > 0 /\ supabase /\ ~lastCreate.raised)
         => ( /\ lastCreate.id # NoPortfolio
              /\ lastCreate.before \subseteq {lastCreate.id} )

\* C15 witness: a second call for a wallet address, with another user_id and
\* another chain_id than the row held, returned the id the first call
\* returned, and the table holds one row for the address.
C15_Witness ==
    /\ lastCreate.n >= 2
    /\ lastCreate.before = {lastCreate.id}
    /\ lastCreate.rowBefore # None
    /\ lastCreate.rowBefore.user_id # lastCreate.user_id
    /\ lastCreate.rowBefore.chain_id # lastCreate.chain_id
    /\ Cardinality(RowsWith(portfolios, "wallet_address", lastCreate.wallet_address)) = 1

----------------------------------------------------------------------------
(* Claims about the strategy agent's decision rule, checked under SpecDeFi *)

Analyzed == analysis.done /\ ~analysis.raised

\* C18: for every non-empty opportunity list and every position map, the
\* opportunity selected as best has an apy >= that of every opportunity of
\* the input, and among those of maximal apy it is the first in input order;
\* a migration goes to it.
C18_BestIsTheFirstMaximum ==
    Analyzed
    => LET os == analysis.opportunities
           b == analysis.best
       IN /\ b \in 1..Len(os)
          /\ \A j \in 1..Len(os) : os[j].apy <= os[b].apy
          /\ \A j \in 1..(b - 1) : os[j].apy < os[b].apy
          /\ analysis.proposal.action = "migrate"
                => ( /\ analysis.proposal.destination = os[b].protocol
                     /\ analysis.proposal.new_apy = os[b].apy )

\* C18 witness: two opportunities of different protocols tie for the maximal
\* apy, and the migration goes to the earlier one.
C18_Witness ==
    /\ Analyzed
    /\ analysis.proposal.action = "migrate"
    /\ \E i, j \in 1..Len(analysis.opportunities) :
         /\ i < j
         /\ analysis.best = i
         /\ analysis.opportunities[j].apy = analysis.opportunities[i].apy
         /\ analysis.opportunities[j].protocol # analysis.opportunities[i].protocol
         /\ analysis.proposal.destination = analysis.opportunities[i].protocol

\* The positions that have an apy, and the greatest apy of a list.
WithApy(positions) == {i \in 1..Len(positions) : positions[i].has_apy}
Least(S) == CHOOSE i \in S : \A j \in S : i <= j
MaxApy(os) == CHOOSE a \in {os[j].apy : j \in 1..Len(os)} : \A j \in 1..Len(os) : os[j].apy <= a

C20_MissingDataIsNoError ==
    (analysis.done /\ (WithApy(analysis.positions) = {} \/ analysis.opportunities = << >>))
    => ( /\ ~analysis.raised
         /\ analysis.opportunities = << >> => analysis.proposal.action = "hold"
         /\ (analysis.opportunities # << >> /\ analysis.proposal.action = "migrate")
               => ( /\ analysis.proposal.current_apy = 0
                    /\ analysis.proposal.source = "wallet" ) )

====
